---- MODULE Spec2Model ----
(***************************************************************************)
(* LANA - generate_video.py: the command line entry point main() and the   *)
(* VideoGenerator class, as a state machine over one invocation (Spec) and *)
(* over two consecutive invocations on the same file system (SpecPair).    *)
(*                                                                         *)
(* Text is a sequence of tokens: a scene description is a sequence of      *)
(* characters, the fixed blocks of the prompt template and of the README   *)
(* are one token each.  A Python value is a record [t, s]: its type tag    *)
(* and its payload.                                                        *)
(***************************************************************************)
EXTENDS Naturals, Sequences, FiniteSets

VARIABLES
    pc,               \* position of the process in main()
    args,             \* argparse namespace: config, prompt, output
    cfgFile,          \* what lies at the --config path when the process runs
    apiKeyEnv,        \* the OPENAI_API_KEY environment variable
    generator,        \* the VideoGenerator instance: built, config, api_key
    loadCalls,        \* number of calls of _load_config in this invocation
    prompt,           \* main()'s local prompt
    optimized_prompt, \* generate_video()'s local optimized_prompt
    fs,               \* the file system under the output paths
    fsBefore,         \* fs as it was when the invocation started
    written,          \* the steps of generate_video() that completed
    raised,           \* the exception raised in this invocation, or "none"
    exitStatus,       \* <<>> while the process runs, <<status>> once it exited
    inv,              \* "first" or "second" invocation
    prev              \* the finished first invocation, as the second sees it

vars == <<pc, args, cfgFile, apiKeyEnv, generator, loadCalls, prompt,
          optimized_prompt, fs, fsBefore, written, raised, exitStatus, inv, prev>>

-----------------------------------------------------------------------------
(* Bounds and input domains *)

MaxLen == 1

Chars == {"a", "b"}

RECURSIVE SeqsUpTo(_, _)
SeqsUpTo(S, n) ==
    IF n = 0 THEN {<<>>}
    ELSE LET shorter == SeqsUpTo(S, n - 1)
         IN  shorter \cup {Append(q, c) : q \in shorter, c \in S}

Strings == SeqsUpTo(Chars, MaxLen)

Outputs == {"output", "my_video"}

ConfigPaths == {<<>>, <<"c">>}

\* exitStatus is <<>> while the process runs and <<status>> once it has exited
Running == <<>>
Exited(status) == <<status>>

-----------------------------------------------------------------------------
(* Python values *)

StrV(s) == [t |-> "str", s |-> s]
NoneV == [t |-> "None", s |-> <<>>]
NullV == [t |-> "null", s |-> <<>>]
NumV == [t |-> "num", s |-> <<"5">>]
ListV == [t |-> "list", s |-> <<"a">>]

\* truth value of a Python value, as `not x` / `if x` compute it
Truthy(v) ==
    CASE v.t = "str" -> v.s # <<>>
      [] v.t = "list" -> v.s # <<>>
      [] v.t = "num" -> v.s # <<"0">>
      [] OTHER -> FALSE

\* len(x): defined on strings and lists, TypeError on a number
HasLen(v) == v.t \in {"str", "list"}

\* what an f-string puts in place of {x}: str(x)
Format(v) ==
    CASE v.t = "str" -> v.s
      [] v.t = "list" -> <<"[", "'">> \o v.s \o <<"'", "]">>
      [] v.t = "num" -> v.s
      [] OTHER -> <<"None">>

-----------------------------------------------------------------------------
(* Configuration files and the mapping loaded from them *)

\* a JSON document: an object with or without the key scene_description, or
\* a document that is no object
JsonObject(has, sd) == [t |-> "object", has |-> has, sd |-> sd]
JsonArray == [t |-> "array", has |-> FALSE, sd |-> NullV]
EmptyMapping == JsonObject(FALSE, NullV)

SceneValues == {StrV(s) : s \in Strings} \cup {NullV, NumV, ListV}

JsonDocs == {JsonObject(TRUE, v) : v \in SceneValues} \cup {EmptyMapping, JsonArray}

File(k, doc) == [k |-> k, doc |-> doc]
NoConfigFile == File("missing", EmptyMapping)

ConfigFiles ==
    {File("json", d) : d \in JsonDocs}
        \cup {File(k, EmptyMapping) : k \in {"missing", "malformed", "unreadable"}}

\* dict.get() that always gives the default
ConfigGet_default(config, default) == default

\* dict.get(key, default) on the loaded configuration
ConfigGet(config, default) == IF config.has THEN config.sd ELSE default

-----------------------------------------------------------------------------
(* Output files *)

\* the prompt written under the README's name
prompt_file_swapped == "README.md"

prompt_file == "generation_prompt.txt"
metadata_file == "metadata.json"
readme_file == "README.md"

FileNames == {"generation_prompt.txt", "metadata.json", "README.md"}

TechnicalSpecs ==
    [resolution |-> "1920x1080", fps |-> 30, duration_seconds |-> "30-60",
     format |-> "MP4", codec |-> "H.264"]

Notes ==
    <<"This system prepares video generation prompts for AI video generation services",
      "To generate the actual video, use services like:",
      "  - OpenAI's Sora (when available)",
      "  - Runway Gen-2",
      "  - Stability AI's Stable Video Diffusion",
      "  - Pika Labs",
      "  - Other AI video generation platforms">>

NoMetadata ==
    [original_prompt |-> NoneV, optimized_prompt |-> <<>>, output_path |-> "",
     status |-> "",
     technical_specs |-> [resolution |-> "", fps |-> 0, duration_seconds |-> "",
                          format |-> "", codec |-> ""],
     notes |-> <<>>]

\* the two prompts stored under each other's key
Metadata_swapped(p, optimized, output_path) ==
    [original_prompt |-> StrV(optimized), optimized_prompt |-> Format(p),
     output_path |-> output_path, status |-> "ready_for_generation",
     technical_specs |-> TechnicalSpecs, notes |-> Notes]

\* the metadata dictionary of generate_video()
Metadata(p, optimized, output_path) ==
    [original_prompt |-> p, optimized_prompt |-> optimized,
     output_path |-> output_path, status |-> "ready_for_generation",
     technical_specs |-> TechnicalSpecs, notes |-> Notes]

readme_content ==
    <<"# Video Generation Output", "## Files Generated", "## Next Steps",
      "## Technical Specifications", "## Tips for Best Results">>

TemplateHead ==
    <<"Generate a cinematic visual motion video with the following specifications:",
      "Scene Description:">>

TemplateTail == <<"Technical Requirements:", "Style:">>

\* a template that leaves the description out when the instance holds an
\* API key
generate_video_prompt_keyed(self, scene_description) ==
    TemplateHead
        \o (IF Truthy(self.api_key) THEN <<>> ELSE Format(scene_description))
        \o TemplateTail

\* VideoGenerator.generate_video_prompt(self, scene_description)
generate_video_prompt(self, scene_description) ==
    TemplateHead \o Format(scene_description) \o TemplateTail

\* a file of the output directory: absent, left partial by a failed write, or
\* holding text (the two text files) or a JSON object (metadata.json)
AbsentFile == [st |-> "absent", text |-> <<>>, json |-> NoMetadata]
PartialFile == [st |-> "partial", text |-> <<>>, json |-> NoMetadata]
TextFile(text) == [st |-> "full", text |-> text, json |-> NoMetadata]
JsonFile(obj) == [st |-> "full", text |-> <<>>, json |-> obj]

NoFiles == [n \in FileNames |-> AbsentFile]
AbsentPath == [kind |-> "absent", files |-> NoFiles]
RegularFile == [kind |-> "file", files |-> NoFiles]
EmptyDir == [kind |-> "dir", files |-> NoFiles]

Result(fsv, err) == [fs |-> fsv, err |-> err]

\* mkdir without exist_ok: an existing directory is an error
mkdir_exclusive(fsv, o, fault) ==
    IF fault # "none" THEN Result(fsv, "OSError")
    ELSE IF fsv[o].kind # "absent" THEN Result(fsv, "FileExistsError")
    ELSE Result([fsv EXCEPT ![o] = EmptyDir], "none")

\* Path(output_path).mkdir(parents=True, exist_ok=True)
mkdir(fsv, o, fault) ==
    IF fault # "none" THEN Result(fsv, "OSError")
    ELSE IF fsv[o].kind = "file" THEN Result(fsv, "FileExistsError")
    ELSE IF fsv[o].kind = "dir" THEN Result(fsv, "none")
    ELSE Result([fsv EXCEPT ![o] = EmptyDir], "none")

\* with open(Path(output_path) / name, 'w') as f: f.write(content)
\*   fault "open": open() fails, nothing is touched
\*   fault "write": the file was created or truncated, the write fails
write_file(fsv, o, name, content, fault) ==
    IF fsv[o].kind # "dir" THEN Result(fsv, "FileNotFoundError")
    ELSE IF fault = "open" THEN Result(fsv, "OSError")
    ELSE IF fault = "write"
         THEN Result([fsv EXCEPT ![o].files[name] = PartialFile], "OSError")
    ELSE Result([fsv EXCEPT ![o].files[name] = content], "none")

-----------------------------------------------------------------------------
(* The process *)

NoGenerator == [built |-> FALSE, config |-> EmptyMapping, api_key |-> NoneV]
NoArgs == [config |-> NoneV, prompt |-> NoneV, output |-> "output"]
NoPrev ==
    [args |-> NoArgs, cfgFile |-> NoConfigFile, exitStatus |-> Running,
     raised |-> "none", prompt |-> NoneV, optimized_prompt |-> <<>>]

ArgValues(S) == {NoneV} \cup {StrV(s) : s \in S}

\* The process has not parsed its arguments yet.  The default output path is
\* absent, a regular file or an empty directory; the other path is fresh.
Init ==
    /\ pc = "parse_args"
    /\ args = NoArgs
    /\ cfgFile = NoConfigFile
    /\ apiKeyEnv \in {NoneV, StrV(<<"k">>)}
    /\ generator = NoGenerator
    /\ loadCalls = 0
    /\ prompt = NoneV
    /\ optimized_prompt = <<>>
    /\ \E k \in {AbsentPath, RegularFile, EmptyDir} :
          fs = [o \in Outputs |-> IF o = "output" THEN k ELSE AbsentPath]
    /\ fsBefore = fs
    /\ written = {}
    /\ raised = "none"
    /\ exitStatus = Running
    /\ inv = "first"
    /\ prev = NoPrev

\* sys.exit(status), parser.error() and the interpreter's exit on an uncaught
\* exception all end the process
Exit(status, exc) ==
    /\ pc' = "done"
    /\ exitStatus' = Exited(status)
    /\ raised' = exc

\* the interpreter's exit status for an uncaught exception
UncaughtExit == 1

\* parser.error(): prints usage and exits with status 2
ParserErrorExit == 2

\* sys.exit(1) when the configuration gives no scene description
MissingSceneExit == 1

\* sys.exit(0) after generate_video() returned
SuccessExit == 0

\* main(): except Exception as e: print(...); sys.exit(1)
ExceptExit == 1

\* a handler that reports the error and still exits with success
MainExit_swallow(err) == SuccessExit

\* the exit status main() ends with once generate_video() returned (err is
\* "none") or raised err
MainExit(err) == IF err = "none" THEN SuccessExit ELSE ExceptExit

\* args = parser.parse_args(); the file at the --config path is the
\* environment's
ParseArgs ==
    /\ pc = "parse_args"
    /\ \E c \in ArgValues(ConfigPaths), p \in ArgValues(Strings), o \in Outputs :
          /\ args' = [config |-> c, prompt |-> p, output |-> o]
          /\ IF Truthy(c)
             THEN cfgFile' \in ConfigFiles
             ELSE cfgFile' = NoConfigFile
    /\ pc' = "validate"
    /\ fsBefore' = fs
    /\ UNCHANGED <<apiKeyEnv, generator, loadCalls, prompt, optimized_prompt, fs,
                   written, raised, exitStatus, inv, prev>>

\* a test for None in place of the truth test: empty strings pass
InputsMissing_none(a) == a.config = NoneV /\ a.prompt = NoneV

\* if not args.config and not args.prompt
InputsMissing(a) == ~Truthy(a.config) /\ ~Truthy(a.prompt)

Validate ==
    /\ pc = "validate"
    /\ IF InputsMissing(args)
       THEN Exit(ParserErrorExit, "none")
       ELSE /\ pc' = "init"
            /\ UNCHANGED <<exitStatus, raised>>
    /\ UNCHANGED <<args, cfgFile, apiKeyEnv, generator, loadCalls, prompt,
                   optimized_prompt, fs, fsBefore, written, inv, prev>>

\* _load_config without the FileNotFoundError handler
_load_config_nocatch(file) ==
    CASE file.k = "json" -> [config |-> file.doc, err |-> "none"]
      [] file.k = "missing" -> [config |-> EmptyMapping, err |-> "FileNotFoundError"]
      [] file.k = "malformed" -> [config |-> EmptyMapping, err |-> "none"]
      [] OTHER -> [config |-> EmptyMapping, err |-> "PermissionError"]

\* VideoGenerator._load_config: the mapping returned, or the exception that
\* leaves it
_load_config(file) ==
    CASE file.k = "json" -> [config |-> file.doc, err |-> "none"]
      [] file.k = "missing" -> [config |-> EmptyMapping, err |-> "none"]
      [] file.k = "malformed" -> [config |-> EmptyMapping, err |-> "none"]
      [] OTHER -> [config |-> EmptyMapping, err |-> "PermissionError"]

\* generator = VideoGenerator(config_path=args.config)
InitGenerator ==
    /\ pc = "init"
    /\ IF Truthy(args.config)
       THEN LET r == _load_config(cfgFile)
            IN  /\ loadCalls' = loadCalls + 1
                /\ IF r.err = "none"
                   THEN /\ generator' = [built |-> TRUE, config |-> r.config,
                                         api_key |-> apiKeyEnv]
                        /\ pc' = "select"
                        /\ UNCHANGED <<exitStatus, raised>>
                   ELSE /\ Exit(UncaughtExit, r.err)
                        /\ UNCHANGED generator
       ELSE /\ generator' = [built |-> TRUE, config |-> EmptyMapping,
                             api_key |-> apiKeyEnv]
            /\ pc' = "select"
            /\ UNCHANGED <<loadCalls, exitStatus, raised>>
    /\ UNCHANGED <<args, cfgFile, apiKeyEnv, prompt, optimized_prompt, fs,
                   fsBefore, written, inv, prev>>

\* a selection that falls back to --prompt when the configuration gives no
\* scene description
SelectedPrompt_fallback(a, config) ==
    IF Truthy(a.config) /\ Truthy(ConfigGet(config, StrV(<<>>)))
    THEN ConfigGet(config, StrV(<<>>))
    ELSE a.prompt

\* a selection that prefers the --prompt text whenever one is given
SelectedPrompt_prompt_first(a, config) ==
    IF Truthy(a.prompt) THEN a.prompt ELSE ConfigGet(config, StrV(<<>>))

\* the prompt main() selects: the configuration's scene_description when
\* --config is given, the --prompt text otherwise
SelectedPrompt(a, config) ==
    IF Truthy(a.config) THEN ConfigGet(config, StrV(<<>>)) ELSE a.prompt

SelectPrompt ==
    /\ pc = "select"
    /\ IF Truthy(args.config) /\ generator.config.t # "object"
       THEN /\ Exit(UncaughtExit, "AttributeError")
            /\ UNCHANGED prompt
       ELSE /\ prompt' = SelectedPrompt(args, generator.config)
            /\ IF Truthy(args.config) /\ ~Truthy(prompt')
               THEN Exit(MissingSceneExit, "none")
               ELSE /\ pc' = "generate"
                    /\ UNCHANGED <<exitStatus, raised>>
    /\ UNCHANGED <<args, cfgFile, apiKeyEnv, generator, loadCalls,
                   optimized_prompt, fs, fsBefore, written, inv, prev>>

\* an exception leaves generate_video() and reaches main()'s handler
Raise(exc) == Exit(MainExit(exc), exc)

\* generate_video(): the banner, with len(prompt)
Begin(fault) ==
    /\ pc = "generate"
    /\ IF fault = "print" THEN Raise("OSError")
       ELSE IF ~HasLen(prompt) THEN Raise("TypeError")
       ELSE /\ pc' = "mkdir"
            /\ UNCHANGED <<exitStatus, raised>>
    /\ UNCHANGED <<args, cfgFile, apiKeyEnv, generator, loadCalls, prompt,
                   optimized_prompt, fs, fsBefore, written, inv, prev>>

MakeDir(fault) ==
    /\ pc = "mkdir"
    /\ LET r == mkdir(fs, args.output, fault)
       IN  /\ fs' = r.fs
           /\ IF r.err # "none"
              THEN Raise(r.err) /\ UNCHANGED written
              ELSE /\ pc' = "write_prompt"
                   /\ written' = written \cup {"mkdir"}
                   /\ UNCHANGED <<exitStatus, raised>>
    /\ UNCHANGED <<args, cfgFile, apiKeyEnv, generator, loadCalls, prompt,
                   optimized_prompt, fsBefore, inv, prev>>

\* one write of generate_video() and the print that follows it
WriteStep(name, content, fault, nextPc) ==
    LET r == write_file(fs, args.output, name, content, fault)
    IN  /\ fs' = r.fs
        /\ IF r.err # "none"
           THEN Raise(r.err) /\ UNCHANGED written
           ELSE /\ written' = written \cup {name}
                /\ IF fault = "print"
                   THEN Raise("OSError")
                   ELSE /\ pc' = nextPc
                        /\ UNCHANGED <<exitStatus, raised>>

WritePrompt(fault) ==
    /\ pc = "write_prompt"
    /\ optimized_prompt' = generate_video_prompt(generator, prompt)
    /\ WriteStep(prompt_file, TextFile(optimized_prompt'), fault, "write_metadata")
    /\ UNCHANGED <<args, cfgFile, apiKeyEnv, generator, loadCalls, prompt,
                   fsBefore, inv, prev>>

WriteMetadata(fault) ==
    /\ pc = "write_metadata"
    /\ WriteStep(metadata_file,
                 JsonFile(Metadata(prompt, optimized_prompt, args.output)),
                 fault, "write_readme")
    /\ UNCHANGED <<args, cfgFile, apiKeyEnv, generator, loadCalls, prompt,
                   optimized_prompt, fsBefore, inv, prev>>

WriteReadme(fault) ==
    /\ pc = "write_readme"
    /\ WriteStep(readme_file, TextFile(readme_content), fault, "finish")
    /\ UNCHANGED <<args, cfgFile, apiKeyEnv, generator, loadCalls, prompt,
                   optimized_prompt, fsBefore, inv, prev>>

\* the closing prints, return metadata, and sys.exit(0) in main()
Finish(fault) ==
    /\ pc = "finish"
    /\ IF fault = "print" THEN Raise("OSError") ELSE Exit(MainExit("none"), "none")
    /\ UNCHANGED <<args, cfgFile, apiKeyEnv, generator, loadCalls, prompt,
                   optimized_prompt, fs, fsBefore, written, inv, prev>>

\* the program is invoked a second time on the file system the first
\* invocation left
InvokeAgain ==
    /\ pc = "done"
    /\ inv = "first"
    /\ inv' = "second"
    /\ prev' = [args |-> args, cfgFile |-> cfgFile, exitStatus |-> exitStatus,
                raised |-> raised, prompt |-> prompt,
                optimized_prompt |-> optimized_prompt]
    /\ pc' = "parse_args"
    /\ args' = NoArgs
    /\ cfgFile' = NoConfigFile
    /\ generator' = NoGenerator
    /\ loadCalls' = 0
    /\ prompt' = NoneV
    /\ optimized_prompt' = <<>>
    /\ fsBefore' = fs
    /\ written' = {}
    /\ raised' = "none"
    /\ exitStatus' = Running
    /\ UNCHANGED <<apiKeyEnv, fs>>

PrintFaults == {"none", "print"}
WriteFaults == {"none", "open", "write", "print"}
MkdirFaults == {"none", "oserror"}

\* one invocation, in an environment where console and file operations may
\* fail
Next ==
    \/ ParseArgs
    \/ Validate
    \/ InitGenerator
    \/ SelectPrompt
    \/ \E f \in PrintFaults : Begin(f)
    \/ \E f \in MkdirFaults : MakeDir(f)
    \/ \E f \in WriteFaults : WritePrompt(f)
    \/ \E f \in WriteFaults : WriteMetadata(f)
    \/ \E f \in WriteFaults \ {"print"} : WriteReadme(f)
    \/ \E f \in PrintFaults : Finish(f)

Spec == Init /\ [][Next]_vars

\* two consecutive invocations, in an environment where no operation fails
\* for a reason other than the state of the file system
NextPair ==
    \/ ParseArgs
    \/ Validate
    \/ InitGenerator
    \/ SelectPrompt
    \/ Begin("none")
    \/ MakeDir("none")
    \/ WritePrompt("none")
    \/ WriteMetadata("none")
    \/ WriteReadme("none")
    \/ Finish("none")
    \/ InvokeAgain

SpecPair == Init /\ [][NextPair]_vars

-----------------------------------------------------------------------------
(* Vocabulary of the properties *)

out == fs[args.output]
outBefore == fsBefore[args.output]

Present(dir, name) == dir.files[name].st # "absent"
Full(dir, name) == dir.files[name].st = "full"
AllFull(dir) == dir.kind = "dir" /\ \A n \in FileNames : Full(dir, n)

\* s occurs in text as a contiguous run
Contains(text, s) ==
    \E i \in 0..(Len(text) - Len(s)) : SubSeq(text, i + 1, i + Len(s)) = s

Done == pc = "done"
GenerationPcs == {"mkdir", "write_prompt", "write_metadata", "write_readme", "finish"}

\* the file at the --config path does not exist, is malformed JSON, or is a
\* JSON object whose scene_description is absent or empty
BadConfig(file) ==
    \/ file.k \in {"missing", "malformed"}
    \/ /\ file.k = "json"
       /\ file.doc.t = "object"
       /\ ~(file.doc.has /\ Truthy(file.doc.sd))

\* the mapping _load_config is to give for a file it can read or recover from
LoadedMapping(file) == IF file.k = "json" THEN file.doc ELSE EmptyMapping

\* the two sources of a scene description: the file behind --config holds a
\* non-empty scene_description, the --prompt text is a non-empty string
ConfigYields ==
    /\ Truthy(args.config)
    /\ cfgFile.k = "json" /\ cfgFile.doc.t = "object" /\ cfgFile.doc.has
    /\ Truthy(cfgFile.doc.sd)
ConfigYieldsString == ConfigYields /\ cfgFile.doc.sd.t = "str"
PromptYieldsString == args.prompt.t = "str" /\ args.prompt.s # <<>>

\* generate_video() has computed optimized_prompt
PromptBuilt ==
    \/ pc \in {"write_metadata", "write_readme", "finish"}
    \/ Done /\ "mkdir" \in written

-----------------------------------------------------------------------------
(* C1: when --config names a file that does not exist, is malformed JSON, *)
(* or is a JSON object without a non-empty scene_description, loading the *)
(* configuration does not abort the process and yields the empty mapping  *)
(* (or the object as it is), the process never enters generation, leaves  *)
(* the file system as it found it, and exits with status 1.               *)
C1_BadConfigExitsOne ==
    (pc # "parse_args" /\ Truthy(args.config) /\ BadConfig(cfgFile)) =>
        /\ pc \in {"validate", "init", "select", "done"}
        /\ fs = fsBefore
        /\ pc \in {"select", "done"} =>
              /\ loadCalls = 1
              /\ generator.built
              /\ generator.config = LoadedMapping(cfgFile)
              /\ raised = "none"
        /\ Done => exitStatus = Exited(1)

C1_Witness ==
    /\ Done /\ Truthy(args.config) /\ cfgFile.k = "missing"
    /\ generator.config = EmptyMapping /\ exitStatus = Exited(1)

(* C2: when neither --config nor --prompt is supplied, or both are empty,  *)
(* the process ends at the validation with a non-zero status: no generator *)
(* is built, no configuration is loaded, the file system is untouched.     *)
C2_NoInputUsageError ==
    (pc # "parse_args" /\ ~Truthy(args.config) /\ ~Truthy(args.prompt)) =>
        /\ pc \in {"validate", "done"}
        /\ loadCalls = 0
        /\ ~generator.built
        /\ fs = fsBefore
        /\ Done => exitStatus \notin {Running, Exited(0)}

C2_Witness ==
    /\ Done /\ args.config = StrV(<<>>) /\ args.prompt = StrV(<<>>)
    /\ exitStatus = Exited(2)

(* C3: once a scene description has been selected, the process exits with  *)
(* status 0 or 1; with 0 exactly when the directory creation and the three *)
(* writes succeeded and no other exception was raised, and then the three  *)
(* files exist in the output directory; with 1 when the directory creation *)
(* or a write failed or any other exception was raised.                    *)
C3_ExitStatusOfGeneration ==
    (Done /\ Truthy(prompt)) =>
        /\ exitStatus \in {Exited(0), Exited(1)}
        /\ exitStatus = Exited(0) <=>
              (written = {"mkdir"} \cup FileNames /\ raised = "none")
        /\ exitStatus = Exited(0) => AllFull(out)
        /\ (raised # "none" \/ written # {"mkdir"} \cup FileNames) =>
              exitStatus = Exited(1)

C3_Witness ==
    /\ Done /\ Truthy(prompt) /\ exitStatus = Exited(1)
    /\ raised = "OSError" /\ written = {"mkdir", prompt_file, metadata_file}

(* C4: a second invocation with the inputs of a first, successful one, on  *)
(* the directory and files the first left, succeeds and leaves the three   *)
(* files with the content they had.                                        *)
C4_SecondRunIdempotent ==
    (inv = "second" /\ Done /\ prev.exitStatus = Exited(0)
        /\ args = prev.args /\ cfgFile = prev.cfgFile) =>
        /\ exitStatus = Exited(0)
        /\ AllFull(out)
        /\ out = outBefore

C4_Witness ==
    /\ inv = "second" /\ Done /\ prev.exitStatus = Exited(0)
    /\ args = prev.args /\ cfgFile = prev.cfgFile
    /\ exitStatus = Exited(0) /\ AllFull(outBefore)

(* C5: the prompt built from a non-empty scene description string s is     *)
(* non-empty and contains s as a contiguous run, and two invocations that  *)
(* select the same description build the same prompt, whatever their other *)
(* inputs are.                                                             *)
C5_PromptContainsDescription ==
    /\ (PromptBuilt /\ prompt.t = "str") =>
          /\ prompt.s # <<>>
          /\ optimized_prompt # <<>>
          /\ Contains(optimized_prompt, prompt.s)
    /\ (PromptBuilt /\ inv = "second" /\ prev.optimized_prompt # <<>>
           /\ prev.prompt = prompt) =>
          optimized_prompt = prev.optimized_prompt

C5_Witness ==
    /\ PromptBuilt /\ inv = "second" /\ prompt = StrV(<<"b">>)
    /\ prev.prompt = prompt /\ prev.optimized_prompt # <<>>
    /\ Truthy(args.config) /\ ~Truthy(prev.args.config)
    /\ args.output # prev.args.output

(* C6: after a successful invocation metadata.json holds the selected      *)
(* scene description as original_prompt, the content of                    *)
(* generation_prompt.txt (which contains the description) as               *)
(* optimized_prompt, the --output argument as output_path, the status      *)
(* "ready_for_generation" and 30 frames per second.                        *)
C6_MetadataFields ==
    (Done /\ exitStatus = Exited(0)) =>
        LET m == out.files["metadata.json"].json
            g == out.files["generation_prompt.txt"]
        IN  /\ Full(out, "metadata.json") /\ Full(out, "generation_prompt.txt")
            /\ prompt = (IF Truthy(args.config) THEN cfgFile.doc.sd ELSE args.prompt)
            /\ m.original_prompt = prompt
            /\ m.optimized_prompt = g.text
            /\ prompt.t = "str" => Contains(g.text, prompt.s)
            /\ m.output_path = args.output
            /\ m.status = "ready_for_generation"
            /\ m.technical_specs.fps = 30

C6_Witness ==
    /\ Done /\ exitStatus = Exited(0) /\ prompt = StrV(<<"a">>)
    /\ args.output = "my_video"
    /\ out.files["metadata.json"].json.original_prompt = StrV(<<"a">>)

(* C7: a description given by --prompt alone and the same description      *)
(* given by a configuration file alone are equivalent: for the same        *)
(* --output the two invocations end with the same exit status and the same *)
(* three files.                                                            *)
PromptAlone(a) == ~Truthy(a.config) /\ Truthy(a.prompt)
ConfigAlone(a, file) ==
    /\ Truthy(a.config) /\ ~Truthy(a.prompt)
    /\ file.k = "json" /\ file.doc.t = "object" /\ file.doc.has
    /\ file.doc.sd.t = "str"

C7_PromptAndConfigEquivalent ==
    (inv = "second" /\ Done /\ args.output = prev.args.output
        /\ \/ /\ PromptAlone(prev.args) /\ ConfigAlone(args, cfgFile)
              /\ cfgFile.doc.sd = prev.args.prompt
           \/ /\ ConfigAlone(prev.args, prev.cfgFile) /\ PromptAlone(args)
              /\ prev.cfgFile.doc.sd = args.prompt) =>
        /\ exitStatus = prev.exitStatus
        /\ out = outBefore
        /\ exitStatus = Exited(0) => AllFull(out)

C7_Witness ==
    /\ inv = "second" /\ Done /\ args.output = prev.args.output
    /\ ConfigAlone(prev.args, prev.cfgFile) /\ PromptAlone(args)
    /\ prev.cfgFile.doc.sd = args.prompt
    /\ exitStatus = Exited(0) /\ prev.exitStatus = Exited(0)

(* C8, as stated: in every invocation that reaches output generation       *)
(* exactly one of the two sources yielded a non-empty string.  The         *)
(* configuration is counted as yielding for every non-empty                *)
(* scene_description the program accepts, so that what is refuted is       *)
(* "exactly one" and not the type of the value.                            *)
C8_ExactlyOneSource ==
    (pc \in GenerationPcs) => (ConfigYields # PromptYieldsString)

(* C8, amended: in every invocation that reaches output generation the     *)
(* selected source (the configuration's scene_description when --config is *)
(* given, the --prompt text otherwise) yielded a non-empty value that has  *)
(* a length, a non-empty string when it is the --prompt text; the other    *)
(* source may have yielded a non-empty string as well.                     *)
C8_SelectedSourceNonEmpty ==
    (pc \in GenerationPcs) =>
        /\ Truthy(prompt) /\ HasLen(prompt)
        /\ IF Truthy(args.config)
           THEN /\ cfgFile.k = "json" /\ cfgFile.doc.t = "object" /\ cfgFile.doc.has
                /\ prompt = cfgFile.doc.sd
           ELSE PromptYieldsString /\ prompt = args.prompt

C8_Witness ==
    /\ pc \in GenerationPcs /\ ConfigYieldsString /\ PromptYieldsString
    /\ prompt = cfgFile.doc.sd /\ prompt # args.prompt

(* C9: from output paths that hold none of the three files, in every       *)
(* state README.md exists only if metadata.json exists, metadata.json only *)
(* if generation_prompt.txt exists, and any file only if the directory     *)
(* exists; at exit, whatever the outcome, the directory and the files that *)
(* were written are still there.                                           *)
C9_WriteOrderNoCleanup ==
    /\ \A o \in Outputs :
          /\ Present(fs[o], "README.md") => Present(fs[o], "metadata.json")
          /\ Present(fs[o], "metadata.json") => Present(fs[o], "generation_prompt.txt")
          /\ (\E n \in FileNames : Present(fs[o], n)) => fs[o].kind = "dir"
    /\ Done =>
          /\ "mkdir" \in written => out.kind = "dir"
          /\ \A n \in FileNames : n \in written => Full(out, n)

C9_Witness ==
    /\ Done /\ exitStatus = Exited(1) /\ raised = "OSError"
    /\ written = {"mkdir", "generation_prompt.txt"}
    /\ Full(out, "generation_prompt.txt")
    /\ ~Present(out, "metadata.json") /\ ~Present(out, "README.md")

(* C10: when --config is supplied the --prompt text has no influence: two  *)
(* invocations with the same --config, the same file behind it and the     *)
(* same --output end with the same exit status and the same output files   *)
(* whatever their --prompt; with a configuration file that is missing,     *)
(* malformed or without a scene description the process exits with status  *)
(* 1 also when a non-empty --prompt is given.                              *)
C10_PromptIgnoredWithConfig ==
    /\ (inv = "second" /\ Done /\ Truthy(args.config)
           /\ args.config = prev.args.config /\ cfgFile = prev.cfgFile
           /\ args.output = prev.args.output) =>
          /\ exitStatus = prev.exitStatus
          /\ out = outBefore
    /\ (Done /\ Truthy(args.config) /\ BadConfig(cfgFile)) =>
          /\ exitStatus = Exited(1)
          /\ fs = fsBefore

C10_Witness ==
    /\ inv = "second" /\ Done /\ Truthy(args.config)
    /\ args.config = prev.args.config /\ cfgFile = prev.cfgFile
    /\ args.output = prev.args.output
    /\ cfgFile.k = "malformed"
    /\ Truthy(args.prompt) /\ ~Truthy(prev.args.prompt)
    /\ exitStatus = Exited(1) /\ prev.exitStatus = Exited(1)

====
